---------------------------- MODULE Spec2Model ----------------------------
(***************************************************************************)
(* State-machine model of src/script.js: the offer form whose fields are   *)
(* rendered into a live HTML preview (updatePreview) and into a PDF        *)
(* (downloadPDF).                                                          *)
(*                                                                         *)
(* Text is a sequence of one-character strings, so that String.includes,   *)
(* String.replace and the file-name regular expression are computed, not   *)
(* assumed.  Lengths on the page are in micrometres (1 mm = 1000), so that *)
(* the leading jsPDF applies between the lines of a text array             *)
(* (font size 10 pt x 1.15 = 4.057 mm) is an integer.                      *)
(***************************************************************************)
EXTENDS Integers, Sequences, FiniteSets, TLC

(***************************************************************************)
(* Characters and strings                                                  *)
(***************************************************************************)
LowerSeq == <<"a","b","c","d","e","f","g","h","i","j","k","l","m",
             "n","o","p","q","r","s","t","u","v","w","x","y","z">>
UpperSeq == <<"A","B","C","D","E","F","G","H","I","J","K","L","M",
             "N","O","P","Q","R","S","T","U","V","W","X","Y","Z">>
Lower == {LowerSeq[i] : i \in 1..Len(LowerSeq)}
Upper == {UpperSeq[i] : i \in 1..Len(UpperSeq)}
Digit == {"0","1","2","3","4","5","6","7","8","9"}

\* case folding, as the i flag of a regular expression applies it
ToUpper(c) ==
    IF c \in Lower
    THEN UpperSeq[CHOOSE i \in 1..Len(LowerSeq) : LowerSeq[i] = c]
    ELSE c

\* the character class [a-zA-Z0-9] of the file-name expression (line 393)
IsAlnum(c) == c \in Lower \cup Upper \cup Digit

\* the class \s restricted to the characters a form field can hold
IsSpace(c) == c \in {" ", "\n", "\t"}

\* the suppress marker '#HIDE#' (lines 52 and 57)
HideTag == <<"#", "H", "I", "D", "E", "#">>

\* whether m occurs in s at position i
MatchesAt(s, m, i) ==
    /\ i + Len(m) - 1 <= Len(s)
    /\ \A k \in 1..Len(m) : s[i + k - 1] = m[k]

\* String.prototype.indexOf: the first position where m occurs in s, 0 if none
IndexOf(s, m) ==
    LET hits == {i \in 1..(Len(s) - Len(m) + 1) : MatchesAt(s, m, i)}
    IN  IF hits = {} THEN 0 ELSE CHOOSE i \in hits : \A j \in hits : i <= j

\* String.prototype.includes (line 52)
Includes(s, m) == IndexOf(s, m) # 0

\* String.prototype.replace with a string pattern: only the FIRST occurrence
\* of m is removed (line 57)
ReplaceFirst(s, m) ==
    LET i == IndexOf(s, m)
    IN  IF i = 0 THEN s
        ELSE SubSeq(s, 1, i - 1) \o SubSeq(s, i + Len(m), Len(s))

(***************************************************************************)
(* The page: element ids                                                   *)
(***************************************************************************)
PreviewId == "document-preview"
ButtonId  == "download-btn"

\* the field elements looked up at lines 74-109, in that order
FieldSeq == << "docCompany", "docAddress", "docCity", "docPhone", "docFiscal",
               "docOfferNum", "docRef", "docDate",
               "destName", "destAddress", "destCity", "destContact",
               "destPhone", "destEmail",
               "serviceDesc", "serviceRoute", "servicePrice",
               "serviceMaterial", "serviceCIG", "serviceCUP",
               "condMinTax", "condLoadTime", "condUnloadTime",
               "condExtraCost", "condMuncato", "condDeadline", "condPayment",
               "closingText" >>

FieldIds == {FieldSeq[i] : i \in 1..Len(FieldSeq)}

AllIds == FieldIds \cup {PreviewId, ButtonId}

ErrorLabel == "Error: PDF Library Not Loaded"
InitialLabel == "label of index.html"
NullText == "null"

(***************************************************************************)
(* Text functions of downloadPDF                                           *)
(***************************************************************************)
RECURSIVE ReplaceRunsFrom(_, _)
ReplaceRunsFrom(s, i) ==
    IF i > Len(s) THEN <<>>
    ELSE IF IsAlnum(s[i]) THEN <<s[i]>> \o ReplaceRunsFrom(s, i + 1)
    ELSE IF i > 1 /\ ~IsAlnum(s[i - 1]) THEN ReplaceRunsFrom(s, i + 1)
    ELSE <<"-">> \o ReplaceRunsFrom(s, i + 1)

\* .replace(/[^a-zA-Z0-9]+/g, '-') (line 393): every maximal run of characters
\* outside [a-zA-Z0-9] becomes one '-'; nothing else is changed
FileSlug(s) == ReplaceRunsFrom(s, 1)

\* the length of the maximal run of characters satisfying the class at s[i..]
RECURSIVE SpaceRun(_, _)
SpaceRun(s, i) ==
    IF i <= Len(s) /\ IsSpace(s[i]) THEN 1 + SpaceRun(s, i + 1) ELSE 0

RECURSIVE AlnumRun(_, _)
AlnumRun(s, i) ==
    IF i <= Len(s) /\ IsAlnum(s[i]) THEN 1 + AlnumRun(s, i + 1) ELSE 0

PivaWord == <<"P", ".", "I", "V", "A">>

\* s.match(/P\.IVA\s*([A-Z0-9]+)/i)?.[1] || ''  (line 381): the first position
\* where 'P.IVA' (any case), optional white space and at least one
\* alphanumeric follow each other; the capture is the alphanumeric run
PivaMatch(s) ==
    LET fold == [i \in 1..Len(s) |-> ToUpper(s[i])]
        ok(i) == /\ SubSeq(fold, i, i + 4) = PivaWord
                 /\ AlnumRun(s, i + 5 + SpaceRun(s, i + 5)) > 0
        hits == {i \in 1..(Len(s) - 4) : ok(i)}
    IN  IF hits = {} THEN <<>>
        ELSE LET i == CHOOSE h \in hits : \A j \in hits : h <= j
                 k == i + 5 + SpaceRun(s, i + 5)
             IN  SubSeq(s, k, k + AlnumRun(s, k) - 1)

\* doc.splitTextToSize(text, maxTextWidth) (lines 287 and 369): jsPDF splits
\* the text at its line breaks and then wraps each paragraph to the width.
\* Every paragraph of the texts below is far narrower than the usable width
\* (180 mm), so the wrap leaves it whole; '' yields the one line ''.
SplitTextToSize(s) ==
    LET breaks == {i \in 1..Len(s) : s[i] = "\n"}
        \* where line k starts and ends: after the break before it, before
        \* the break after it
        before(k) == {i \in breaks : Cardinality({j \in breaks : j <= i}) = k - 1}
        after(k)  == {i \in breaks : Cardinality({j \in breaks : j <= i}) = k}
        from(k) == IF k = 1 THEN 1 ELSE 1 + CHOOSE i \in before(k) : TRUE
        to(k)   == IF after(k) = {} THEN Len(s) ELSE (CHOOSE i \in after(k) : TRUE) - 1
    IN  [k \in 1..(Cardinality(breaks) + 1) |-> SubSeq(s, from(k), to(k))]

(***************************************************************************)
(* Bounds and the values a user types                                      *)
(***************************************************************************)
\* line breaks in the longest closing text
MaxBreaks == 54

\* fields holding a non-empty value at the same time
MaxEdited == 1

PlainValue  == <<"Q", "1", " ", "R", "e", "p", "o", "r", "t", "!", "!">>
OneTagValue == <<"x">> \o HideTag \o <<"y">>
TwoTagValue == HideTag \o <<"a">> \o HideTag
FiscalValue == <<"c", "f", " ", "p", ".", "I", "v", "a", " ", "0", "7", "b", "/">>
\* n + 1 lines 'a', separated by n line breaks
LongText(n) == [i \in 1..(2 * n + 1) |-> IF i % 2 = 1 THEN "a" ELSE "\n"]

\* what is typed into a one-line field: no marker, or two markers
LineValues == {PlainValue, TwoTagValue}

\* closingText is the one multi-line field; docFiscal feeds the P.IVA line
FieldValues(f) ==
    IF f = "closingText" THEN {<<>>, OneTagValue, LongText(MaxBreaks)}
    ELSE IF f = "docFiscal" THEN {<<>>, FiscalValue} \cup LineValues
    ELSE {<<>>} \cup LineValues

\* window.jspdf when the script starts: not set, null, an object without a
\* jsPDF member, or the library
JspdfGlobals == {"absent", "null", "nomember", "ok"}

\* the pages a run can be in: everything present, or one element absent
DomConfigs == {AllIds} \cup {AllIds \ {e} : e \in AllIds}

\* the loads explored: every state of the library with the page whole or
\* lacking a display region; the library with the page lacking the field
\* that names the file or the field that is wrapped
LoadConfigs ==
    {<<w, d>> \in JspdfGlobals \X DomConfigs :
        \/ AllIds \ d \subseteq {PreviewId, ButtonId}
        \/ w = "ok" /\ AllIds \ d \subseteq {"docOfferNum", "closingText"}}

(***************************************************************************)
(* State                                                                   *)
(***************************************************************************)
VARIABLES
    jspdfGlobal,  \* window.jspdf as the page's other scripts left it
    dom,          \* ids of the elements the page holds
    scriptState,  \* "loading", "done", or "aborted" by an uncaught exception
    jsPDF,        \* the constant of line 14
    fields,       \* el.value of every field element
    preview,      \* previewElement.innerHTML
    btn,          \* the download button: disabled, textContent
    console,      \* what console.warn / console.error logged, uncaught errors
    listeners,    \* elements carrying updatePreview as their input listener
    windowApp,    \* whether window.documentApp is set
    frames,       \* activations of downloadPDF that have not returned
    out           \* what the latest handler run showed, raised and saved

vars == << jspdfGlobal, dom, scriptState, jsPDF, fields, preview, btn,
           console, listeners, windowApp, frames, out >>

(***************************************************************************)
(* Helpers of the script                                                   *)
(***************************************************************************)
\* const jsPDF = window.jspdf && window.jspdf.jsPDF  (line 14)
JsPDFConst(w) ==
    CASE w = "absent"   -> "undefined"
      [] w = "null"     -> "null"
      [] w = "nomember" -> "undefined"
      [] OTHER          -> "constructor"

\* getEl (lines 37-41): the warnings logged for looking up the ids in S
GetElWarnings(S) == {<<"warn", id>> : id \in S \ dom}

\* An element reference as the script holds it after lines 74-109: null
\* (the empty sequence) when page d lacks the element, else the element,
\* of which only .value is read
El(d, fs, id) == IF id \in d THEN << fs[id] >> ELSE <<>>

\* Fault variant of val: the forPDF test of line 52 is lost, the marker is
\* only stripped
Val_stripOnly(el, forPDF) ==
    IF el = <<>> THEN <<>> ELSE ReplaceFirst(el[1], HideTag)

\* val (lines 44-58)
Val(el, forPDF) ==
    IF el = <<>> THEN <<>>
    ELSE LET value == el[1]
         IN  IF forPDF /\ Includes(value, HideTag) THEN <<>>
             ELSE ReplaceFirst(value, HideTag)

\* setDownloadButtonState (lines 61-66): the button after the call
SetDownloadButtonState(b, disabled, text) ==
    IF ButtonId \notin dom THEN b
    ELSE [disabled |-> disabled,
          text     |-> IF text # NullText THEN text ELSE b.text]

\* the template literal of updatePreview (lines 145-198): its fixed markup
\* with one ${val(...)} per field; kept as the text put in each place
PreviewMarkup(d, fs) == [f \in FieldIds |-> Val(El(d, fs, f), FALSE)]

\* Fault variant of the assignment: += in place of =, the new markup is
\* appended to the content already shown
InnerHTMLAssign_append(old, markup) ==
    [rendered |-> TRUE, text |-> [f \in FieldIds |-> old.text[f] \o markup[f]]]

\* previewElement.innerHTML = ...  (line 145): the content after the
\* assignment, given the content before it
InnerHTMLAssign(old, markup) == [rendered |-> TRUE, text |-> markup]

\* updatePreview (lines 144-199) raises a TypeError when previewElement,
\* taken once at line 71, is null
UpdatePreviewThrows == PreviewId \notin dom

UncaughtTypeError == <<"uncaught", "TypeError">>

\* Fault variant of the guard: the test of line 397 used at line 218
LibraryMissing_typeof(j) == j = "undefined"

\* if (!jsPDF)  (line 218)
LibraryMissing(j) == j \in {"undefined", "null"}

\* if (typeof jsPDF === 'undefined')  (line 397)
StartupDetectsMissing(j) == j = "undefined"

NoOut(event) == [event |-> event, error |-> FALSE, alert |-> FALSE, saved |-> <<>>]

EditedCount == Cardinality({f \in FieldIds : fields[f] # <<>>})

(***************************************************************************)
(* Init: the page is parsed, the script has not run yet                    *)
(***************************************************************************)
Init ==
    /\ \E c \in LoadConfigs : jspdfGlobal = c[1] /\ dom = c[2]
    /\ scriptState = "loading"
    /\ jsPDF = "uninitialised"
    /\ fields = [f \in FieldIds |-> <<>>]
    /\ preview = [rendered |-> FALSE, text |-> [f \in FieldIds |-> <<>>]]
    /\ btn = [disabled |-> FALSE, text |-> InitialLabel]
    /\ console = {}
    /\ listeners = {}
    /\ windowApp = FALSE
    /\ frames = <<>>
    /\ out = NoOut("none")

(***************************************************************************)
(* The top-level script (lines 14-205 and 397-400), run once               *)
(***************************************************************************)
Startup ==
    /\ scriptState = "loading"
    /\ jsPDF' = JsPDFConst(jspdfGlobal)                       \* line 14
    /\ listeners' = FieldIds \cap dom                         \* lines 112-118, 202
    /\ windowApp' = TRUE                                      \* lines 130-134
    /\ LET lookups == GetElWarnings({PreviewId} \cup FieldIds) \* lines 71-109
       IN  IF UpdatePreviewThrows                             \* line 205
           THEN /\ scriptState' = "aborted"
                /\ console' = console \cup lookups \cup {UncaughtTypeError}
                /\ out' = [NoOut("startup") EXCEPT !.error = TRUE]
                /\ UNCHANGED << preview, btn >>
           ELSE /\ scriptState' = "done"
                /\ preview' = InnerHTMLAssign(preview, PreviewMarkup(dom, fields))
                /\ out' = NoOut("startup")
                /\ IF StartupDetectsMissing(jsPDF')            \* lines 397-400
                   THEN /\ console' = console \cup lookups
                                      \cup {<<"error", "jsPDF library failed to load">>}
                                      \cup GetElWarnings({ButtonId})
                        /\ btn' = SetDownloadButtonState(btn, TRUE, ErrorLabel)
                   ELSE /\ console' = console \cup lookups
                        /\ btn' = btn
    /\ UNCHANGED << jspdfGlobal, dom, fields, frames >>

(***************************************************************************)
(* Event dispatch                                                          *)
(***************************************************************************)
\* Fault variant: an await in front of the closing text
Yields_beforeClosing(pc) == pc = "closing"

\* Whether downloadPDF, having finished phase pc, hands control back to the
\* event loop before its next phase.  The function is declared async but
\* holds no await (lines 217-394): it runs from its first statement to
\* doc.save in one turn.
Yields(pc) == FALSE

\* An event handler starts only when no handler is running: every
\* activation still in flight is suspended
CanDispatch ==
    /\ scriptState # "loading"
    /\ \A i \in 1..Len(frames) : Yields(frames[i].pc)

\* updatePreview (lines 144-199) as the body of a handler run
RunUpdatePreview(event) ==
    IF UpdatePreviewThrows
    THEN /\ preview' = preview
         /\ console' = console \cup {UncaughtTypeError}
         /\ out' = [NoOut(event) EXCEPT !.error = TRUE]
    ELSE /\ preview' = InnerHTMLAssign(preview, PreviewMarkup(dom, fields'))
         /\ console' = console
         /\ out' = NoOut(event)

\* The user changes field f to v: the browser stores the value and fires
\* 'input', whose listener is updatePreview (lines 121-127, 202)
InputEvent(f, v) ==
    /\ CanDispatch
    /\ f \in dom
    /\ v # fields[f]
    /\ v = <<>> \/ fields[f] # <<>> \/ EditedCount < MaxEdited
    /\ fields' = [fields EXCEPT ![f] = v]
    /\ IF f \in listeners
       THEN RunUpdatePreview("updatePreview")
       ELSE /\ out' = NoOut("none")
            /\ UNCHANGED << preview, console >>
    /\ UNCHANGED << jspdfGlobal, dom, scriptState, jsPDF, btn, listeners,
                    windowApp, frames >>

\* window.documentApp.updatePreview()  (line 131)
ManualUpdatePreview ==
    /\ CanDispatch
    /\ windowApp
    /\ UNCHANGED << jspdfGlobal, dom, scriptState, jsPDF, fields, btn,
                    listeners, windowApp, frames >>
    /\ RunUpdatePreview("updatePreview")

(***************************************************************************)
(* downloadPDF (lines 217-394)                                             *)
(***************************************************************************)
\* const margin = 15  (line 228)
Margin == 15000
\* doc.internal.pageSize.getHeight() of an 'a4' portrait page (line 227)
PageHeight == 297000
\* const boxY = margin + 20  (line 267)
BoxY == Margin + 20000
\* the distance jsPDF puts between the lines of a text array drawn by one
\* doc.text call at font size 10 (lines 367-370): 10 pt x 1.15
TextLeading == 4057
\* the advance per closing line the code adds to currentY (line 371)
ClosingAdvance == 5000

\* One doc.text call: what is drawn (a label and a field's value), where
\* (at the cursor or at a fixed height), and the currentY += that follows
Cur(label, field, adv) ==
    [kind |-> "field", label |-> label, field |-> field, at |-> "cur", y |-> 0, adv |-> adv]
CurLit(label, adv) ==
    [kind |-> "literal", label |-> label, field |-> "", at |-> "cur", y |-> 0, adv |-> adv]
Abs(label, field, y) ==
    [kind |-> "field", label |-> label, field |-> field, at |-> "abs", y |-> y, adv |-> 0]
AbsLit(label, y) ==
    [kind |-> "literal", label |-> label, field |-> "", at |-> "abs", y |-> y, adv |-> 0]
AbsPiva(label, field, y) ==
    [kind |-> "piva", label |-> label, field |-> field, at |-> "abs", y |-> y, adv |-> 0]
Skip(adv) ==
    [kind |-> "skip", label |-> "", field |-> "", at |-> "cur", y |-> 0, adv |-> adv]

\* lines 232-260
HeaderOps == <<
    Cur("", "docCompany", 4000), Cur("", "docAddress", 4000),
    Cur("", "docCity", 4000), Cur("", "docPhone", 4000),
    Cur("", "docFiscal", 25000), Cur("N. ", "docOfferNum", 5000),
    Cur("Ns. Referente: ", "docRef", 5000), Cur("Fontaniva ", "docDate", 5000) >>

\* lines 264-280
RecipientOps == <<
    AbsLit("Spettabile", BoxY + 5000),
    Abs("", "destName", BoxY + 10000), Abs("", "destAddress", BoxY + 15000),
    Abs("", "destCity", BoxY + 20000),
    Abs("Interlocutore: ", "destContact", BoxY + 25000),
    Abs("Telefono, Fax: ", "destPhone", BoxY + 29000),
    Abs("Email: ", "destEmail", BoxY + 33000) >>

\* lines 282-322.  The intro sentence is 164 mm wide in Helvetica 10 pt, so
\* splitTextToSize leaves it on one line: introLines.length * 5 + 2 = 7
BodyOps == <<
    Skip(30000),
    CurLit("Con la presente Vi trasmettiamo ...", 7000),
    CurLit("Descrizione", 10000),
    Cur("", "serviceDesc", 10000),
    Cur("", "serviceRoute", 0), Cur("", "servicePrice", 8000),
    Cur("Materiale/CER: ", "serviceMaterial", 8000),
    Cur("CIG: ", "serviceCIG", 0), Cur("CUP: ", "serviceCUP", 8000) >>

\* lines 324-364
ConditionOps == <<
    CurLit("Minimo Tassabile:", 0), Cur("", "condMinTax", 6000),
    CurLit("Tempi di Carico:", 0), Cur("", "condLoadTime", 6000),
    CurLit("Tempi di Scarico:", 0), Cur("", "condUnloadTime", 6000),
    CurLit("Extra Sosta Carico/Scarico:", 0), Cur("", "condExtraCost", 6000),
    CurLit("Mancato Carico:", 0), Cur("", "condMuncato", 10000),
    CurLit("Data fine", 0), Cur("", "condDeadline", 0),
    CurLit("Pagamento", 0), Cur("", "condPayment", 8000) >>

\* lines 373-390
FooterOps == <<
    Abs("", "destName", PageHeight - Margin - 50000),
    Abs("", "destAddress", PageHeight - Margin - 46000),
    Abs("", "destCity", PageHeight - Margin - 43000),
    AbsPiva("P.IVA ", "docFiscal", PageHeight - Margin - 40000),
    AbsLit("Vaccari Srl", PageHeight - Margin - 50000),
    AbsLit("Sede Legale: ...", PageHeight - Margin - 46000),
    AbsLit("Sede Operativa: ...", PageHeight - Margin - 43000),
    AbsLit("P.IVA: 00863050246", PageHeight - Margin - 40000) >>

\* doc.text(text, x, y): one more line on the page being drawn.  Beside the
\* height and the text, a line records which doc.text call drew it (kind,
\* field); the horizontal position plays no part in what follows.
DrawText(fr, op, value, y) ==
    [fr EXCEPT !.draws = Append(@, [page |-> fr.pages, y |-> y, kind |-> op.kind,
                                    field |-> op.field, label |-> op.label,
                                    value |-> value])]

\* the value a doc.text call reads from the form
OpValue(op) ==
    CASE op.kind = "field" -> Val(El(dom, fields, op.field), TRUE)
      [] op.kind = "piva"  -> PivaMatch(Val(El(dom, fields, op.field), TRUE))
      [] OTHER             -> <<>>

RunOp(fr, op) ==
    IF op.kind = "skip" THEN [fr EXCEPT !.currentY = @ + op.adv]
    ELSE [DrawText(fr, op, OpValue(op), IF op.at = "cur" THEN fr.currentY ELSE op.y)
             EXCEPT !.currentY = @ + op.adv]

RECURSIVE RunOps(_, _)
RunOps(fr, ops) ==
    IF ops = <<>> THEN fr ELSE RunOps(RunOp(fr, Head(ops)), Tail(ops))

ClosingOp ==
    [kind |-> "line", label |-> "", field |-> "closingText", at |-> "cur", y |-> 0, adv |-> 0]

\* doc.text(closingLines, margin, currentY) (line 370): jsPDF draws line i of
\* the array TextLeading below line i - 1, all on the current page
DrawLines(fr, lines, y) ==
    [fr EXCEPT !.draws = @ \o [i \in 1..Len(lines) |->
                                  [page |-> fr.pages, y |-> y + (i - 1) * TextLeading,
                                   kind |-> ClosingOp.kind, field |-> ClosingOp.field,
                                   label |-> ClosingOp.label, value |-> lines[i]]]]

\* lines 366-371
RunClosing(fr) ==
    LET closingLines == SplitTextToSize(Val(El(dom, fields, "closingText"), TRUE))
    IN  [DrawLines(fr, closingLines, fr.currentY)
            EXCEPT !.currentY = @ + Len(closingLines) * ClosingAdvance + 10000]

\* the name handed to doc.save (line 393)
FileName == [prefix |-> "offerta-", slug |-> FileSlug(Val(El(dom, fields, "docOfferNum"), TRUE)),
             suffix |-> ".pdf"]

PhaseSeq == << "header", "recipient", "body", "conditions", "closing", "footer", "save" >>

NextPc(pc) == PhaseSeq[1 + CHOOSE i \in 1..(Len(PhaseSeq) - 1) : PhaseSeq[i] = pc]

\* new jsPDF('p', 'mm', 'a4') (line 225) holds one page; let currentY = margin
NewFrame == [pc |-> "header", currentY |-> Margin, pages |-> 1, draws |-> <<>>]

\* The export is triggered: by the button (its onclick, while it is enabled)
\* or by window.documentApp.downloadPDF() (line 132).  Lines 217-230.
DownloadPDF(via) ==
    /\ CanDispatch
    /\ \/ via = "button" /\ ButtonId \in dom /\ ~btn.disabled
       \/ via = "api" /\ windowApp
    /\ IF LibraryMissing(jsPDF)
       THEN /\ console' = console \cup {<<"error", "jsPDF library is not available.">>}
                                  \cup GetElWarnings({ButtonId})
            /\ btn' = SetDownloadButtonState(btn, TRUE, ErrorLabel)
            /\ out' = [NoOut("downloadPDF") EXCEPT !.alert = TRUE]
            /\ frames' = frames
       ELSE /\ frames' = Append(frames, NewFrame)
            /\ out' = NoOut("downloadPDF")
            /\ UNCHANGED << console, btn >>
    /\ UNCHANGED << jspdfGlobal, dom, scriptState, jsPDF, fields, preview,
                    listeners, windowApp >>

\* the activation that runs next: the only one not suspended, or, when all
\* are suspended, any of them
Runnable(i) ==
    /\ i \in 1..Len(frames)
    /\ \A j \in 1..Len(frames) : j # i => Yields(frames[j].pc)

\* one phase of frame i: the frame moves on to the next phase
Phase(i, pc, after) ==
    /\ Runnable(i)
    /\ frames[i].pc = pc
    /\ frames' = [frames EXCEPT ![i] = [after EXCEPT !.pc = NextPc(pc)]]
    /\ out' = NoOut("export")
    /\ UNCHANGED << jspdfGlobal, dom, scriptState, jsPDF, fields, preview, btn,
                    console, listeners, windowApp >>

ExportHeader == \E i \in 1..Len(frames) : Phase(i, "header", RunOps(frames[i], HeaderOps))
ExportRecipient == \E i \in 1..Len(frames) : Phase(i, "recipient", RunOps(frames[i], RecipientOps))
ExportBody == \E i \in 1..Len(frames) : Phase(i, "body", RunOps(frames[i], BodyOps))
ExportConditions == \E i \in 1..Len(frames) : Phase(i, "conditions", RunOps(frames[i], ConditionOps))
ExportClosing == \E i \in 1..Len(frames) : Phase(i, "closing", RunClosing(frames[i]))
ExportFooter == \E i \in 1..Len(frames) : Phase(i, "footer", RunOps(frames[i], FooterOps))

\* doc.save(...) (line 393), after which downloadPDF returns
ExportSave ==
    \E i \in 1..Len(frames) :
        /\ Runnable(i)
        /\ frames[i].pc = "save"
        /\ out' = [NoOut("export") EXCEPT
                     !.saved = << [file |-> FileName, pages |-> frames[i].pages,
                                   draws |-> frames[i].draws] >>]
        /\ frames' = [j \in 1..(Len(frames) - 1) |->
                         IF j < i THEN frames[j] ELSE frames[j + 1]]
        /\ UNCHANGED << jspdfGlobal, dom, scriptState, jsPDF, fields, preview,
                        btn, console, listeners, windowApp >>

Next ==
    \/ Startup
    \/ \E f \in FieldIds : \E v \in FieldValues(f) : InputEvent(f, v)
    \/ ManualUpdatePreview
    \/ \E via \in {"button", "api"} : DownloadPDF(via)
    \/ ExportHeader
    \/ ExportRecipient
    \/ ExportBody
    \/ ExportConditions
    \/ ExportClosing
    \/ ExportFooter
    \/ ExportSave

Spec == Init /\ [][Next]_vars

(***************************************************************************)
(* Properties                                                              *)
(***************************************************************************)
\* the lines drawn so far by every export in flight and by the export saved
\* in the latest step
DrawLogs ==
    {frames[i].draws : i \in 1..Len(frames)}
        \cup {out.saved[i].draws : i \in 1..Len(out.saved)}

IsClosingLine(d) == d.kind = "line"

\* what the claim of redaction says the export uses for field f
RedactedValue(f) == IF Includes(fields[f], HideTag) THEN <<>> ELSE fields[f]

ValuesOf(ds) == [k \in 1..Len(ds) |-> ds[k].value]

\* C1: every value the export draws or names the file with is '' when the
\* field's raw value holds the marker '#HIDE#' and is the raw value when it
\* does not (the P.IVA line and the file name being derived from that value,
\* the closing text being that value split into its lines).
C1_ExportRedaction ==
    /\ \A ds \in DrawLogs :
          /\ \A k \in 1..Len(ds) :
                LET d == ds[k]
                IN  d.field \in dom =>
                      /\ d.kind = "field" => d.value = RedactedValue(d.field)
                      /\ d.kind = "piva" => d.value = PivaMatch(RedactedValue(d.field))
                      /\ Includes(fields[d.field], HideTag) => d.value = <<>>
          /\ LET lines == SelectSeq(ds, IsClosingLine)
             IN  (lines # <<>> /\ "closingText" \in dom) =>
                     ValuesOf(lines) = SplitTextToSize(RedactedValue("closingText"))
    /\ \A i \in 1..Len(out.saved) :
          "docOfferNum" \in dom =>
              out.saved[i].file.slug = FileSlug(RedactedValue("docOfferNum"))

\* C1 witness: a document was saved while the offer number held text around
\* two markers; nothing of it is in the file name
C1_Witness ==
    /\ out.saved # <<>>
    /\ fields["docOfferNum"] = TwoTagValue
    /\ out.saved[1].file.slug = <<>>

\* C2: the text the preview shows for a field holds no marker '#HIDE#'
\* (stated as claimed; the code removes only the first occurrence).
C2_PreviewHasNoMarker ==
    (PreviewId \in dom /\ preview.rendered) =>
        \A f \in FieldIds \cap dom : ~Includes(preview.text[f], HideTag)

\* C3: every line drawn by downloadPDF lies within
\* [margin, pageHeight - margin] (stated as claimed; the code never breaks
\* the page).
C3_DrawsWithinMargins ==
    \A ds \in DrawLogs :
        \A k \in 1..Len(ds) : Margin <= ds[k].y /\ ds[k].y <= PageHeight - Margin

\* C4: a saved document whose closing lines, at the advance of 5 mm a line,
\* need more than the height left under the cursor has more than one page
\* (stated as claimed; the code never adds a page).
C4_LongTextAddsPages ==
    \A i \in 1..Len(out.saved) :
        LET lines == SelectSeq(out.saved[i].draws, IsClosingLine)
        IN  (lines # <<>> /\
             Len(lines) * ClosingAdvance > (PageHeight - Margin) - lines[1].y)
                => out.saved[i].pages > 1

\* C5: while the library is unavailable no export is ever in flight and
\* nothing is saved, and every invocation of downloadPDF ends with the alert
\* shown and the button (if the page has one) disabled and relabelled.
C5_NoExportWithoutLibrary ==
    (scriptState # "loading" /\ jspdfGlobal # "ok") =>
        /\ frames = <<>>
        /\ out.saved = <<>>
        /\ out.event = "downloadPDF" =>
              /\ out.alert
              /\ ButtonId \in dom => btn.disabled /\ btn.text = ErrorLabel

\* C5 witness: downloadPDF was invoked with window.jspdf null
C5_Witness ==
    /\ jspdfGlobal = "null"
    /\ out.event = "downloadPDF"
    /\ out.alert
    /\ btn.disabled

\* C6: right after the startup script, the button is disabled and relabelled
\* when the library is unavailable, and enabled with its label untouched
\* when it is available (stated as claimed).
C6_StartupDisablesButton ==
    (out.event = "startup" /\ ButtonId \in dom) =>
        IF jspdfGlobal # "ok"
        THEN btn.disabled /\ btn.text = ErrorLabel
        ELSE ~btn.disabled /\ btn.text = InitialLabel

IsSlugChar(c) == c \in Lower \cup Digit \cup {"-"}

\* C7: the slug of the saved file name is lowercase, holds only
\* alphanumerics and '-', no two '-' in a row, and neither starts nor ends
\* with '-' (stated as claimed).
C7_SlugNormalised ==
    \A i \in 1..Len(out.saved) :
        LET slug == out.saved[i].file.slug
        IN  /\ \A k \in 1..Len(slug) : IsSlugChar(slug[k])
            /\ \A k \in 1..(Len(slug) - 1) : ~(slug[k] = "-" /\ slug[k + 1] = "-")
            /\ slug # <<>> => slug[1] # "-" /\ slug[Len(slug)] # "-"

\* C8: on a page that has the preview region, once the script has run, no
\* render raises an error and the display is at every moment the render of
\* the current field values: each field's value without its first marker,
\* blank for a field the page lacks; whatever was displayed before and
\* however many renders ran.
C8_PreviewIsRenderOfFields ==
    (PreviewId \in dom /\ scriptState # "loading") =>
        /\ ~out.error
        /\ preview.rendered
        /\ \A f \in FieldIds :
              preview.text[f] =
                  IF f \in dom THEN ReplaceFirst(fields[f], HideTag) ELSE <<>>

\* C8 witness: a render ran on a form whose closing text holds a marker
C8_Witness ==
    /\ out.event = "updatePreview"
    /\ fields["closingText"] = OneTagValue
    /\ preview.text["closingText"] = <<"x", "y">>

\* C9: whatever element the page lacks, nothing throws: the script runs to
\* its end, every lookup of a missing element is logged, the listeners and
\* window.documentApp are in place, the startup check took effect and a
\* missing field is shown blank (stated as claimed).
C9_MissingTargetIsNoOp ==
    scriptState # "loading" =>
        /\ ~out.error
        /\ scriptState = "done"
        /\ windowApp
        /\ listeners = FieldIds \cap dom
        /\ \A id \in ({PreviewId} \cup FieldIds) \ dom : <<"warn", id>> \in console
        /\ (jsPDF = "undefined" /\ ButtonId \in dom) => btn.disabled
        /\ preview.rendered => \A f \in FieldIds \ dom : preview.text[f] = <<>>

IsPrefix(a, b) == Len(a) <= Len(b) /\ SubSeq(b, 1, Len(a)) = a

\* C10: while an export is in flight it is the only activation, and the
\* next step is its own next phase: no field changes, no preview render, no
\* other export starts; its document only grows by its own draws until it
\* is saved and the activation returns.
C10_ExportRunsToCompletion ==
    [][ frames # <<>> =>
          /\ Len(frames) = 1
          /\ fields' = fields
          /\ preview' = preview
          /\ \/ /\ frames' = <<>>
                /\ Len(out'.saved) = 1
                /\ out'.saved[1].draws = frames[1].draws
                /\ out'.saved[1].pages = frames[1].pages
             \/ /\ Len(frames') = 1
                /\ frames'[1].pc = NextPc(frames[1].pc)
                /\ frames'[1].pages = frames[1].pages
                /\ frames'[1].currentY >= frames[1].currentY
                /\ IsPrefix(frames[1].draws, frames'[1].draws) ]_vars

\* C10 witness: an export is in flight, about to draw a long closing text
C10_Witness ==
    /\ Len(frames) = 1
    /\ frames[1].pc = "closing"
    /\ fields["closingText"] = LongText(MaxBreaks)

====
